---- MODULE Spec2Model ----
(***************************************************************************)
(* Model of src/main.cc: a translation unit that imports rose.filesystem,  *)
(* rose.random and rose.span and whose entry point is                      *)
(*     int main() { return EXIT_SUCCESS; }                                 *)
(* The host launches NumRuns processes of the program, each with its own   *)
(* argument vector and its own set of available host facilities, over one  *)
(* shared environment (files, network, standard streams).  Each process    *)
(* executes main, which is the only operation of the program.              *)
(***************************************************************************)
EXTENDS Naturals, Integers, Sequences, FiniteSets, TLC

\* Number of runs of the program the host launches.
NumRuns == 2

Runs == 1..NumRuns

\* <cstdlib> value named by the return statement of main.
EXIT_SUCCESS == 0

\* The modules the translation unit imports.
Imports == {"rose.filesystem", "rose.random", "rose.span"}

\* Argument vectors the host may pass (none, or extra arguments).
ArgVectors == {<<>>, <<"--flag", "value">>}

\* Host facilities that may or may not be available to a run.
Facilities == {"filesystem", "network", "random"}

\* Environments the host may be in when the runs start.
Environments ==
    [files : {{}, {"data"}}, net : {<<>>}, out : {<<>>}, err : {<<>>}]

VARIABLES
    pc,          \* pc[r]: control state of run r
    status,      \* status[r]: exit statuses run r reported to the host
    argv,        \* argv[r]: arguments the host passed to run r
    facilities,  \* facilities[r]: host facilities available to run r
    env,         \* shared host environment: files, network, stdout, stderr
    before,      \* the environment as it was before any run
    calls,       \* calls[r]: imported modules whose facilities run r invoked
    raised,      \* raised[r]: error values created in run r
    threads      \* threads[r]: number of threads of run r

vars == <<pc, status, argv, facilities, env, before, calls, raised, threads>>

\* The host has started every run; no run has executed main yet.
Init ==
    /\ pc = [r \in Runs |-> "running"]
    /\ status = [r \in Runs |-> <<>>]
    /\ argv \in [Runs -> ArgVectors]
    /\ facilities \in [Runs -> SUBSET Facilities]
    /\ env \in Environments
    /\ before = env
    /\ calls = [r \in Runs |-> {}]
    /\ raised = [r \in Runs |-> {}]
    /\ threads = [r \in Runs |-> 1]

\* ---- Faulty variants of main, used to show each property rests on main ----

\* Returns a failure status.
main_returns_failure(r) ==
    /\ pc[r] = "running"
    /\ pc' = [pc EXCEPT ![r] = "terminated"]
    /\ status' = [status EXCEPT ![r] = Append(status[r], EXIT_SUCCESS + 1)]
    /\ UNCHANGED <<argv, facilities, env, before, calls, raised, threads>>

\* Waits for the host's randomness source before returning.
main_blocks_on_random(r) ==
    /\ pc[r] = "running"
    /\ "random" \in facilities[r]
    /\ pc' = [pc EXCEPT ![r] = "terminated"]
    /\ status' = [status EXCEPT ![r] = Append(status[r], EXIT_SUCCESS)]
    /\ UNCHANGED <<argv, facilities, env, before, calls, raised, threads>>

\* Declares (argc, argv) and rejects unexpected arguments.
main_inspects_arguments(r) ==
    /\ pc[r] = "running"
    /\ pc' = [pc EXCEPT ![r] = "terminated"]
    /\ status' = [status EXCEPT ![r] =
                    Append(status[r], IF Len(argv[r]) = 0 THEN EXIT_SUCCESS
                                      ELSE EXIT_SUCCESS + 1)]
    /\ UNCHANGED <<argv, facilities, env, before, calls, raised, threads>>

\* Passes through an initialisation state before returning.
main_in_two_steps(r) ==
    /\ \/ /\ pc[r] = "running"
          /\ pc' = [pc EXCEPT ![r] = "initialising"]
          /\ UNCHANGED status
       \/ /\ pc[r] = "initialising"
          /\ pc' = [pc EXCEPT ![r] = "terminated"]
          /\ status' = [status EXCEPT ![r] = Append(status[r], EXIT_SUCCESS)]
    /\ UNCHANGED <<argv, facilities, env, before, calls, raised, threads>>

\* Prints a line on standard output before returning.
main_prints(r) ==
    /\ pc[r] = "running"
    /\ pc' = [pc EXCEPT ![r] = "terminated"]
    /\ status' = [status EXCEPT ![r] = Append(status[r], EXIT_SUCCESS)]
    /\ env' = [env EXCEPT !.out = Append(env.out, "done")]
    /\ UNCHANGED <<argv, facilities, before, calls, raised, threads>>

\* Leaves a marker file behind on its first run.
main_writes_file(r) ==
    /\ pc[r] = "running"
    /\ pc' = [pc EXCEPT ![r] = "terminated"]
    /\ status' = [status EXCEPT ![r] = Append(status[r], EXIT_SUCCESS)]
    /\ env' = [env EXCEPT !.files = env.files \cup {"marker"}]
    /\ UNCHANGED <<argv, facilities, before, calls, raised, threads>>

\* Probes the filesystem; the resulting error is swallowed when it is unreadable.
main_probes_filesystem(r) ==
    /\ pc[r] = "running"
    /\ pc' = [pc EXCEPT ![r] = "terminated"]
    /\ status' = [status EXCEPT ![r] = Append(status[r], EXIT_SUCCESS)]
    /\ raised' = [raised EXCEPT ![r] =
                    IF "filesystem" \in facilities[r] THEN raised[r]
                    ELSE raised[r] \cup {"filesystem_error"}]
    /\ UNCHANGED <<argv, facilities, env, before, calls, threads>>

\* Seeds a generator from rose.random and discards it.
main_calls_random(r) ==
    /\ pc[r] = "running"
    /\ pc' = [pc EXCEPT ![r] = "terminated"]
    /\ status' = [status EXCEPT ![r] = Append(status[r], EXIT_SUCCESS)]
    /\ calls' = [calls EXCEPT ![r] = calls[r] \cup {"rose.random"}]
    /\ UNCHANGED <<argv, facilities, env, before, raised, threads>>

\* Starts a worker thread that outlives the return statement's evaluation.
main_spawns_thread(r) ==
    /\ pc[r] = "running"
    /\ pc' = [pc EXCEPT ![r] = "terminated"]
    /\ status' = [status EXCEPT ![r] = Append(status[r], EXIT_SUCCESS)]
    /\ threads' = [threads EXCEPT ![r] = threads[r] + 1]
    /\ UNCHANGED <<argv, facilities, env, before, calls, raised>>

\* ---- The program ----

\* int main() { return EXIT_SUCCESS; }
\* No parameter is declared, so argv[r] and facilities[r] are not read; the
\* body is the single return statement, so nothing else is assigned.
main(r) ==
    /\ pc[r] = "running"
    /\ pc' = [pc EXCEPT ![r] = "terminated"]
    /\ status' = [status EXCEPT ![r] = Append(status[r], EXIT_SUCCESS)]
    /\ UNCHANGED <<argv, facilities, env, before, calls, raised, threads>>

Next == \E r \in Runs : main(r)

Spec == Init /\ [][Next]_vars

\* A started process is scheduled until main returns.
FairSpec == Spec /\ \A r \in Runs : WF_vars(main(r))

\* ---- Properties ----

Terminated(r) == pc[r] = "terminated"

\* C1: every run that has terminated reported exactly the success status
\* EXIT_SUCCESS; the set of outcomes of terminated runs is within {success}.
C1_ExitStatusIsSuccess ==
    /\ \A r \in Runs : Terminated(r) => status[r] = <<EXIT_SUCCESS>>
    /\ {status[r] : r \in {q \in Runs : Terminated(q)}} \subseteq {<<EXIT_SUCCESS>>}

C1_Witness == \E r \in Runs : Terminated(r) /\ status[r] = <<EXIT_SUCCESS>>

\* C2: under weak fairness of main, every run eventually reaches the
\* terminated state.
C2_EventuallyTerminated == <>(\A r \in Runs : Terminated(r))

C2_Witness ==
    /\ \A r \in Runs : Terminated(r)
    /\ \E r \in Runs : "random" \notin facilities[r]

\* C3: two terminated runs that differ in their arguments or in the host
\* facilities available to them report the same status, success.
C3_OutcomeIndependentOfInputs ==
    \A r1, r2 \in Runs :
        ( /\ Terminated(r1) /\ Terminated(r2)
          /\ (argv[r1] # argv[r2] \/ facilities[r1] # facilities[r2]) )
        => /\ status[r1] = status[r2]
           /\ status[r1] = <<EXIT_SUCCESS>>

C3_Witness ==
    \E r1, r2 \in Runs :
        /\ Terminated(r1) /\ Terminated(r2)
        /\ argv[r1] = <<>> /\ argv[r2] = <<"--flag", "value">>
        /\ facilities[r1] = Facilities /\ facilities[r2] = {}
        /\ status[r1] = status[r2]

\* C4: each run is a two-state machine: it starts in "running", its only
\* other state is "terminated" with the success status, the step from
\* running to terminated is always enabled, it is the only step, and
\* nothing of a terminated run changes afterwards.
C4_TwoStateMachine ==
    /\ \A r \in Runs : pc[r] = "running"
    /\ [](\A r \in Runs : /\ pc[r] \in {"running", "terminated"}
                          /\ (pc[r] = "running" => ENABLED main(r))
                          /\ (pc[r] = "terminated" => ~ ENABLED main(r)))
    /\ [][\A r \in Runs :
            /\ (pc'[r] # pc[r]) =>
                  /\ pc[r] = "running" /\ pc'[r] = "terminated"
                  /\ status'[r] = <<EXIT_SUCCESS>>
            /\ (pc[r] = "terminated") =>
                  /\ pc'[r] = "terminated" /\ status'[r] = status[r]]_vars

C4_Witness ==
    \E r1, r2 \in Runs :
        /\ pc[r1] = "running" /\ status[r1] = <<>>
        /\ pc[r2] = "terminated" /\ status[r2] = <<EXIT_SUCCESS>>

\* C5: a step in which a run goes from running to terminated leaves the
\* host's files, network state and standard streams as they were.
C5_RunLeavesEnvironmentUnchanged ==
    [][(\E r \in Runs : pc[r] = "running" /\ pc'[r] = "terminated")
          => env' = env]_vars

C5_Witness ==
    /\ \E r \in Runs : Terminated(r)
    /\ env.files = {"data"} /\ env.out = <<>> /\ env.err = <<>> /\ env.net = <<>>

\* C6: whatever number of runs have terminated, in whatever order, each of
\* them reported success and the environment equals the one before any run.
C6_IdempotentOrderIndependent ==
    \A n \in 0..NumRuns :
        Cardinality({r \in Runs : Terminated(r)}) = n =>
            /\ \A r \in Runs : Terminated(r) => status[r] = <<EXIT_SUCCESS>>
            /\ env = before

C6_Witness ==
    /\ Cardinality({r \in Runs : Terminated(r)}) = NumRuns
    /\ NumRuns > 1
    /\ env = before

\* C7: no run ever creates an error value, reaches an aborted state or
\* reports a status other than success, before or after main has executed.
C7_NoFailurePath ==
    \A r \in Runs :
        /\ raised[r] = {}
        /\ pc[r] # "aborted"
        /\ \A i \in 1..Len(status[r]) : status[r][i] = EXIT_SUCCESS

C7_Witness ==
    \E r \in Runs : Terminated(r) /\ facilities[r] = {} /\ raised[r] = {}

\* C8: no run invokes a facility of an imported module, whether or not it
\* has terminated.
C8_ImportedModulesNeverCalled ==
    \A r \in Runs : calls[r] \cap Imports = {}

C8_Witness ==
    \E r \in Runs :
        Terminated(r) /\ facilities[r] = Facilities /\ calls[r] \cap Imports = {}

\* C9: every run has exactly one thread, and an observer sees a run either
\* with none of its effects (not yet executed) or with all of them
\* (terminated with its status reported); a step completes one whole run.
C9_SingleThreadedAtomic ==
    /\ [](\A r \in Runs :
            /\ threads[r] = 1
            /\ \/ pc[r] = "running" /\ status[r] = <<>>
               \/ pc[r] = "terminated" /\ Len(status[r]) = 1)
    /\ [][Cardinality({r \in Runs : pc'[r] # pc[r]}) = 1
          /\ \A r \in Runs : threads'[r] = threads[r]]_vars

C9_Witness ==
    \E r1, r2 \in Runs :
        /\ pc[r1] = "running" /\ status[r1] = <<>> /\ threads[r1] = 1
        /\ pc[r2] = "terminated" /\ Len(status[r2]) = 1 /\ threads[r2] = 1
        /\ argv[r1] = argv[r2]

====
